---- MODULE Spec2Model ----
(***************************************************************************)
(* EmotionFusion (streamlit_App.py): a Streamlit script that is re-run,    *)
(* top to bottom, once per widget event of a browser session.              *)
(*                                                                         *)
(* Spec      : the sessions of one server process, each running the script *)
(*             against its own st.session_state and the one working        *)
(*             directory all sessions share (the Video Annotation run).    *)
(* SpecFrame : one frame taken through the per-frame pipeline of a driver  *)
(*             (image, video, live): detect, crop, classify, decide, draw, *)
(*             and for the image driver the aggregate chart.               *)
(***************************************************************************)
EXTENDS Integers, Sequences, FiniteSets, TLC

VARIABLES
    sess,    \* per session: the widgets' values, st.session_state, the script run
    files,   \* the working directory all sessions share: name -> writer, or NoFile
    fr       \* one frame on its way through a driver (SpecFrame)

vars == <<sess, files, fr>>

(***************************************************************************)
(* Bounds                                                                  *)
(***************************************************************************)
MaxFrames == 2

Sessions == {"s1", "s2"}

Pages == {"Home", "Image Annotation", "Video Annotation", "Live Cam"}

video_path == "temp_video.mp4"

output_path == "annotated_video.mp4"

NoFile == "absent"

\* Positions of a script run at which a video run of the session is in flight:
\* the guard of line 293 has been passed and line 371 has not been reached.
RunPcs == {"open", "writer", "setflag", "read", "detect", "progress",
           "release", "download", "cleanup"}

\* Positions whose next statement is a Streamlit element call (st.success 298,
\* st.write 307, st.progress 315, st.warning 330, progress_bar.progress 355,
\* st.success 361, st.download_button 364): a pending rerun request stops the
\* script there.
YieldPcs == {"open", "writer", "setflag", "detect", "progress", "download", "cleanup"}

(***************************************************************************)
(* Spec: sessions, script runs and the Video Annotation run                *)
(***************************************************************************)
\* A session as it connects.  The fields:
\*   page          the sidebar radio as the script run read it (line 25)
\*   request       the widget event that asked for a rerun which has not
\*                 started yet: "none", "rerun", or the page picked in the radio
\*   uploaded      the video file_uploader holds a file (line 287)
\*   processing    st.session_state.processing: "absent", "False", "True"
\*   pc            position of the session's script run ("idle": none running,
\*                 "offline": no browser has opened the session)
\*   cap, out      the run's VideoCapture / VideoWriter: "none", "open", "released"
\*   pos           frames cap.read() has returned in this run
\*   frame_count   line 318 / 353
\*   total_frames  line 306
\*   rendered      the elements the current script run has put on the page
\*   busyUpload    an upload event arrived while a video run was in flight
\*   answering     the current script run was started by such an event
\*   ended         how the video run of the last script run ended
NewSession ==
    [page |-> "Home", request |-> "rerun", uploaded |-> FALSE,
     processing |-> "absent", pc |-> "idle", cap |-> "none", out |-> "none",
     pos |-> 0, frame_count |-> 0, total_frames |-> 0, rendered |-> {},
     busyUpload |-> FALSE, answering |-> FALSE, ended |-> "none"]

Offline == [NewSession EXCEPT !.pc = "offline", !.request = "none"]

\* A session whose first script run is over and whose user has just picked the
\* Video Annotation page.
OnVideoPage ==
    [NewSession EXCEPT !.request = "Video Annotation", !.rendered = {"navigation"}]

FrameIdle == [fpc |-> "off"]

\* One browser session is open.
Init ==
    /\ sess = [s \in Sessions |-> IF s = "s1" THEN NewSession ELSE Offline]
    /\ files = [f \in {video_path, output_path} |-> NoFile]
    /\ fr = FrameIdle

\* Two browser sessions are open, both on the Video Annotation page.
InitShared ==
    /\ sess = [s \in Sessions |-> OnVideoPage]
    /\ files = [f \in {video_path, output_path} |-> NoFile]
    /\ fr = FrameIdle

pending(s) == sess[s].request # "none"

\* The user picks another page in the sidebar radio: a rerun is requested, in
\* which line 25 returns that page.  The video uploader is not part of the
\* other pages, so its file goes with it.
Navigate(s, p) ==
    /\ "navigation" \in sess[s].rendered
    /\ p # sess[s].page
    /\ sess' = [sess EXCEPT ![s] = [@ EXCEPT !.request = p, !.uploaded = FALSE]]
    /\ UNCHANGED <<files, fr>>

\* The user puts a file into the video uploader: an upload event.
Upload(s) ==
    /\ "video_uploader" \in sess[s].rendered
    /\ sess[s].request \notin Pages
    /\ sess' = [sess EXCEPT ![s] = [@ EXCEPT !.uploaded = TRUE, !.request = "rerun",
                                    !.busyUpload = @ \/ sess[s].pc \in RunPcs]]
    /\ UNCHANGED <<files, fr>>

\* Lines 13-27: a script run starts.  st.session_state and the widgets' values
\* are kept; the names of the last run (cap, out, frame_count, ...) are gone,
\* and the page is rebuilt from the sidebar on.
BeginRun(r) ==
    [r EXCEPT !.pc = "top", !.request = "none", !.rendered = {"navigation"},
              !.page = IF r.request \in Pages THEN r.request ELSE r.page,
              !.answering = r.busyUpload, !.busyUpload = FALSE,
              !.cap = "none", !.out = "none", !.ended = "none",
              !.pos = 0, !.frame_count = 0, !.total_frames = 0]

StartScript(s) ==
    /\ sess[s].pc = "idle"
    /\ pending(s)
    /\ sess' = [sess EXCEPT ![s] = BeginRun(@)]
    /\ UNCHANGED <<files, fr>>

\* A rerun request reaches a running script at its next Streamlit call: the
\* script is stopped there (nothing after that call runs) and run again.
\* Line 354 divides before line 355 calls Streamlit.
Interrupt(s) ==
    /\ pending(s)
    /\ sess[s].pc \in YieldPcs
    /\ sess[s].pc = "progress" => sess[s].total_frames # 0
    /\ sess' = [sess EXCEPT ![s] = BeginRun(@)]
    /\ UNCHANGED <<files, fr>>

\* Lines 29-256: the Home and Image Annotation sections.
PageSections(s) ==
    /\ sess[s].pc = "top"
    /\ sess' = [sess EXCEPT ![s] = [@ EXCEPT
           !.rendered = IF sess[s].page = "Image Annotation"
                        THEN @ \cup {"image_uploader", "image_url"} ELSE @,
           !.pc = "video"]]
    /\ UNCHANGED <<files, fr>>

\* The script run is over: by its last line, by an uncaught exception, or by
\* st.stop().  What the run had not yet done (release, os.remove, the reset of
\* the flag) is not done.
EndScript(r, how) ==
    [r EXCEPT !.pc = "idle", !.ended = how, !.answering = FALSE,
              !.pos = 0, !.frame_count = 0, !.total_frames = 0]

\* Lines 284-296 and 373-374: the uploader, the guard, and past the guard the
\* upload written to video_path.  The run then stands at st.success (298).
VideoGuard(s) ==
    /\ sess[s].pc = "video"
    /\ sess[s].page = "Video Annotation"
    /\ LET flag == IF sess[s].processing = "absent" THEN "False"
                   ELSE sess[s].processing
           shown == sess[s].rendered \cup {"video_uploader"}
       IN  IF sess[s].uploaded /\ flag = "False"
           THEN /\ files' = [files EXCEPT ![video_path] = s]
                /\ sess' = [sess EXCEPT ![s] = [@ EXCEPT
                       !.processing = flag, !.rendered = shown, !.pc = "open"]]
           ELSE /\ sess' = [sess EXCEPT ![s] = [@ EXCEPT
                       !.processing = flag,
                       !.rendered = IF flag = "True"
                                    THEN shown \cup {"ongoing_notice"} ELSE shown,
                       !.pc = "tail"]]
                /\ UNCHANGED files
    /\ UNCHANGED fr

\* Line 284 on any other page: the section is skipped.
VideoSkip(s) ==
    /\ sess[s].pc = "video"
    /\ sess[s].page # "Video Annotation"
    /\ sess' = [sess EXCEPT ![s] = [@ EXCEPT !.pc = "tail"]]
    /\ UNCHANGED <<files, fr>>

\* Lines 298-306: the capture is opened on video_path; a file that does not
\* open ends the script at st.stop() (303).  total_frames is what the
\* container's header says, which need not be the number of frames read.
VideoOpen(s) ==
    /\ sess[s].pc = "open"
    /\ ~pending(s)
    /\ \E opened \in BOOLEAN :
         /\ files[video_path] = NoFile => ~opened
         /\ IF opened
            THEN \E t \in 0..MaxFrames :
                    sess' = [sess EXCEPT ![s] = [@ EXCEPT
                        !.cap = "open", !.total_frames = t, !.pc = "writer"]]
            ELSE sess' = [sess EXCEPT ![s] = EndScript(@, "open_failed")]
    /\ UNCHANGED <<files, fr>>

\* Lines 307-312: the writer creates output_path.
VideoWriter(s) ==
    /\ sess[s].pc = "writer"
    /\ ~pending(s)
    /\ sess' = [sess EXCEPT ![s] = [@ EXCEPT !.out = "open", !.pc = "setflag"]]
    /\ files' = [files EXCEPT ![output_path] = s]
    /\ UNCHANGED fr

\* Lines 315-321: the progress bar, frame_count = 0, processing = True.
SetProcessing(s) ==
    /\ sess[s].pc = "setflag"
    /\ ~pending(s)
    /\ sess' = [sess EXCEPT ![s] = [@ EXCEPT
           !.frame_count = 0, !.processing = "True", !.pc = "read"]]
    /\ UNCHANGED <<files, fr>>

\* Lines 323-326: cap.read(); no frame ends the loop.
ReadFrame(s) ==
    /\ sess[s].pc = "read"
    /\ \E ret \in BOOLEAN :
         /\ ret => sess[s].pos < MaxFrames
         /\ sess' = [sess EXCEPT ![s] =
                IF ret THEN [@ EXCEPT !.pos = @ + 1, !.pc = "detect"]
                       ELSE [@ EXCEPT !.pc = "release"]]
    /\ UNCHANGED <<files, fr>>

\* Lines 328-331: the detector finds no face: a warning, and `continue`.
DetectNone(s) ==
    /\ sess[s].pc = "detect"
    /\ ~pending(s)
    /\ sess' = [sess EXCEPT ![s] = [@ EXCEPT !.pc = "read"]]
    /\ UNCHANGED <<files, fr>>

\* Lines 328-353: the detector finds faces: they are annotated, the frame is
\* written, frame_count is incremented.
DetectFaces(s) ==
    /\ sess[s].pc = "detect"
    /\ sess' = [sess EXCEPT ![s] = [@ EXCEPT !.frame_count = @ + 1,
                                              !.pc = "progress"]]
    /\ UNCHANGED <<files, fr>>

\* Lines 354-356: frame_count / total_frames divides by zero when the header
\* gave 0 frames, and progress() refuses a value above 1.0.
Progress(s) ==
    /\ sess[s].pc = "progress"
    /\ sess[s].total_frames # 0 => ~pending(s)
    /\ sess' = [sess EXCEPT ![s] =
           IF sess[s].total_frames = 0 \/ sess[s].frame_count > sess[s].total_frames
           THEN EndScript(@, "failed")
           ELSE [@ EXCEPT !.pc = "read"]]
    /\ UNCHANGED <<files, fr>>

\* Lines 358-359: both handles are released.
Release(s) ==
    /\ sess[s].pc = "release"
    /\ sess' = [sess EXCEPT ![s] = [@ EXCEPT !.cap = "released", !.out = "released",
                                              !.pc = "download"]]
    /\ UNCHANGED <<files, fr>>

\* Lines 361-363: output_path is opened for the download button.
Download(s) ==
    /\ sess[s].pc = "download"
    /\ ~pending(s)
    /\ sess' = [sess EXCEPT ![s] =
           IF files[output_path] = NoFile
           THEN EndScript(@, "failed")
           ELSE [@ EXCEPT !.pc = "cleanup",
                          !.rendered = @ \cup {"download_button"}]]
    /\ UNCHANGED <<files, fr>>

\* Lines 364-371: both files are removed, by name, and the flag is reset.
\* os.remove of a missing file raises.
Cleanup(s) ==
    /\ sess[s].pc = "cleanup"
    /\ ~pending(s)
    /\ IF files[video_path] = NoFile
       THEN /\ sess' = [sess EXCEPT ![s] = EndScript(@, "failed")]
            /\ UNCHANGED files
       ELSE IF files[output_path] = NoFile
       THEN /\ sess' = [sess EXCEPT ![s] = EndScript(@, "failed")]
            /\ files' = [files EXCEPT ![video_path] = NoFile]
       ELSE /\ sess' = [sess EXCEPT ![s] = [@ EXCEPT
                   !.processing = "False", !.pc = "tail", !.ended = "completed"]]
            /\ files' = [f \in DOMAIN files |-> NoFile]
    /\ UNCHANGED fr

\* Lines 376-474: the model and the detector are loaded again and the live
\* functions are defined; run_emotion_detection, which holds the start/stop
\* button (470) and its own call (474), is not called.  The script ends.
LiveSection(s) ==
    /\ sess[s].pc = "tail"
    /\ sess' = [sess EXCEPT ![s] = EndScript(@, sess[s].ended)]
    /\ UNCHANGED <<files, fr>>

Next ==
    \E s \in Sessions :
        \/ \E p \in Pages : Navigate(s, p)
        \/ Upload(s)
        \/ StartScript(s)
        \/ Interrupt(s)
        \/ PageSections(s)
        \/ VideoGuard(s)
        \/ VideoSkip(s)
        \/ VideoOpen(s)
        \/ VideoWriter(s)
        \/ SetProcessing(s)
        \/ ReadFrame(s)
        \/ DetectNone(s)
        \/ DetectFaces(s)
        \/ Progress(s)
        \/ Release(s)
        \/ Download(s)
        \/ Cleanup(s)
        \/ LiveSection(s)

Spec == Init /\ [][Next]_vars

\* The sessions of SpecShared stay on the Video Annotation page.
NextShared ==
    \E s \in Sessions :
        \/ Upload(s)
        \/ StartScript(s)
        \/ Interrupt(s)
        \/ PageSections(s)
        \/ VideoGuard(s)
        \/ VideoOpen(s)
        \/ VideoWriter(s)
        \/ SetProcessing(s)
        \/ ReadFrame(s)
        \/ DetectNone(s)
        \/ DetectFaces(s)
        \/ Progress(s)
        \/ Release(s)
        \/ Download(s)
        \/ Cleanup(s)
        \/ LiveSection(s)

SpecShared == InitShared /\ [][NextShared]_vars

\* The steps of the session's script run, as opposed to what the user does.
ScriptStep(s) ==
    \/ StartScript(s)
    \/ Interrupt(s)
    \/ PageSections(s)
    \/ VideoGuard(s)
    \/ VideoSkip(s)
    \/ VideoOpen(s)
    \/ VideoWriter(s)
    \/ SetProcessing(s)
    \/ ReadFrame(s)
    \/ DetectNone(s)
    \/ DetectFaces(s)
    \/ Progress(s)
    \/ Release(s)
    \/ Download(s)
    \/ Cleanup(s)
    \/ LiveSection(s)

\* One session whose user stays on the Video Annotation page.
InitVideo ==
    /\ sess = [s \in Sessions |-> IF s = "s1" THEN OnVideoPage ELSE Offline]
    /\ files = [f \in {video_path, output_path} |-> NoFile]
    /\ fr = FrameIdle

\* That session with its scheduling: a requested script run starts and a
\* started one goes on to its end (its last line, an exception, st.stop() or a
\* rerun), and the user goes on uploading whenever the uploader is on the page
\* and takes a new file.
SpecVideoFair ==
    /\ InitVideo
    /\ [][NextShared]_vars
    /\ \A s \in Sessions : WF_vars(ScriptStep(s)) /\ WF_vars(Upload(s))

(***************************************************************************)
(* SpecFrame: one frame through the per-frame pipeline of a driver         *)
(***************************************************************************)
\* Bounds of the frame, of the detector's list and of the classifier's scores.
FrameW == 2

FrameH == 2

MaxFaces == 2

MaxScore == 3

MaxRest == 1

\* Lines 87-90: eight labels.
NumLabels == 8

\* Line 154: confidence_threshold = 0.3, and line 451: confidence > 0.6, in tenths.
confidence_threshold == 3

live_threshold == 6

Drivers == {"image", "video", "live"}

\* Lines 87-90, as the Image and Video pages see them, and lines 390 for the
\* live functions.
emotion_labels ==
    <<"Angry", "Contempt", "Disgust", "Fear", "Happy", "Neutral", "Sad", "Surprise">>

live_labels ==
    <<"angry", "contempt", "disgust", "fear", "happy", "neutral", "sad", "surprise">>

\* Lines 93-102 and 393-402: every scaling factor is 1.0.
emotion_scaling == [i \in 1..NumLabels |-> 1]

\* What face["box"] may hold: the detector is not bound to the frame.
Boxes ==
    [x : -1..(FrameW - 1), y : -1..(FrameH - 1),
     width : 0..(FrameW + 1), height : 0..(FrameH + 1)]

\* What model.predict may return for one face, as non-negative weights.
RawScores ==
    { [i \in 1..NumLabels |-> IF i = 1 THEN p ELSE IF i = 2 THEN q ELSE r] :
        p \in 0..MaxScore, q \in 0..MaxScore, r \in 0..MaxRest }

Max2(a, b) == IF a >= b THEN a ELSE b

Min2(a, b) == IF a <= b THEN a ELSE b

\* len(range(*slice(start, stop).indices(n))): a negative bound counts from the
\* end, and both bounds are clamped to 0..n.
SliceLen(start, stop, n) ==
    LET norm(i) == IF i < 0 THEN Max2(i + n, 0) ELSE Min2(i, n)
    IN  Max2(norm(stop) - norm(start), 0)

\* frame[y:y + height, x:x + width]: rows and columns of the crop.
Crop(b) ==
    [rows |-> SliceLen(b.y, b.y + b.height, FrameH),
     cols |-> SliceLen(b.x, b.x + b.width, FrameW)]

\* roi.size > 0
RoiSize(roi) == roi.rows * roi.cols

RECURSIVE SumTo(_, _)
SumTo(v, n) == IF n = 0 THEN 0 ELSE v[n] + SumTo(v, n - 1)

\* np.sum
Sum(v) == SumTo(v, NumLabels)

\* np.max
MaxOf(v) == CHOOSE m \in {v[i] : i \in 1..NumLabels} : \A i \in 1..NumLabels : v[i] <= m

\* np.argmax: the first index of the maximum (1-based here).
ArgMax(v) == CHOOSE i \in 1..NumLabels :
                 /\ v[i] = MaxOf(v)
                 /\ \A j \in 1..(i - 1) : v[j] < v[i]

\* Lines 119-120 and 414-418: scale, then divide by the sum.  The quotient
\* scaled[i] / sum is kept as the pair (num[i], den); a zero sum makes every
\* entry 0.0 / 0.0 = nan (numpy warns and goes on).
Normalize(preds) ==
    LET scaled == [i \in 1..NumLabels |-> preds[i] * emotion_scaling[i]]
    IN  [nan |-> Sum(scaled) = 0, num |-> scaled, den |-> Sum(scaled)]

\* np.argmax of a distribution: of an all-nan array it is index 0 (1 here).
DistArgMax(d) == IF d.nan THEN 1 ELSE ArgMax(d.num)

\* a < t / 10 and a > t / 10 for a = max(d); every comparison with nan is False.
ConfBelow(d, t) == ~d.nan /\ 10 * MaxOf(d.num) < t * d.den

ConfAbove(d, t) == ~d.nan /\ 10 * MaxOf(d.num) > t * d.den

\* What a driver did with one face.
\*   box      the box the driver cropped and drew with
\*   roi      the crop
\*   prep     preprocess_face / cv2.resize was called on the crop
\*   raised   that call raised (cv2.resize refuses an empty image)
\*   raw      the classifier's scores
\*   dist     the distribution the driver got ("none": it got none)
\*   label    the text drawn ("none": no text)
\*   conf     the confidence is part of the text
\*   rect     the rectangle was drawn
FaceRec(d, b, roi, prep, raised, raw, dist, label, conf, rect) ==
    [drv |-> d, box |-> b, roi |-> roi, prep |-> prep, raised |-> raised,
     raw |-> raw, dist |-> dist, label |-> label, conf |-> conf, rect |-> rect]

NoDist == [nan |-> FALSE, num |-> [i \in 1..NumLabels |-> 0], den |-> 0]

\* ImageFace with `confidence <= confidence_threshold` for line 155.
ImageFace_InclusiveThreshold(b, raw) ==
    LET roi == Crop(b)
        dist == Normalize(raw)
        emotion == emotion_labels[DistArgMax(dist)]
        atMost == ~dist.nan /\ 10 * MaxOf(dist.num) <= confidence_threshold * dist.den
    IN  IF RoiSize(roi) = 0
        THEN FaceRec("image", b, roi, TRUE, TRUE, raw, NoDist, "none", FALSE, FALSE)
        ELSE FaceRec("image", b, roi, TRUE, FALSE, raw, dist,
                     IF atMost THEN "Unknown" ELSE emotion, TRUE, TRUE)

\* Lines 144-160 (detect_and_annotate_faces, with predict_emotion of line 114).
ImageFace(b, raw) ==
    LET roi == Crop(b)
        dist == Normalize(raw)
        emotion == emotion_labels[DistArgMax(dist)]
    IN  IF RoiSize(roi) = 0
        THEN FaceRec("image", b, roi, TRUE, TRUE, raw, NoDist, "none", FALSE, FALSE)
        ELSE FaceRec("image", b, roi, TRUE, FALSE, raw, dist,
                     IF ConfBelow(dist, confidence_threshold) THEN "Unknown" ELSE emotion,
                     TRUE, TRUE)

\* Line 337: "Ensure that the bounding box is within frame boundaries".
ClipBox(b) ==
    [x |-> Max2(0, b.x), y |-> Max2(0, b.y),
     width |-> Min2(FrameW, b.width), height |-> Min2(FrameH, b.height)]

\* Lines 333-348 (Video Annotation, with predict_emotion of line 265, which
\* takes the argmax of the raw scores and returns the label alone).
VideoFace(b, raw) ==
    LET c == ClipBox(b)
        roi == Crop(c)
    IN  IF RoiSize(roi) > 0
        THEN FaceRec("video", c, roi, TRUE, FALSE, raw, NoDist,
                     emotion_labels[ArgMax(raw)], FALSE, TRUE)
        ELSE FaceRec("video", c, roi, FALSE, FALSE, raw, NoDist, "none", FALSE, TRUE)

\* Lines 440-454 (run_emotion_detection, with predict_emotion of line 421).
LiveFace(b, raw) ==
    LET roi == Crop(b)
        dist == Normalize(raw)
        emotion == live_labels[DistArgMax(dist)]
        show == ConfAbove(dist, live_threshold)
    IN  IF RoiSize(roi) = 0
        THEN FaceRec("live", b, roi, TRUE, TRUE, raw, NoDist, "none", FALSE, FALSE)
        ELSE FaceRec("live", b, roi, TRUE, FALSE, raw, dist,
                     IF show THEN emotion ELSE "none", show, show)

\* plot_confidence_chart plotting a default chart for an empty list.
plot_confidence_chart_EmptyDefault(k) == "figure"

\* Lines 165-179: np.mean over axis 0 of k distributions is one distribution;
\* of an empty list it is the scalar nan (numpy warns and goes on).  go.Bar
\* takes a list or an array for y and raises ValueError for a scalar.
plot_confidence_chart(k) ==
    LET avg_confidence == IF k = 0 THEN "scalar nan" ELSE "array"
    IN  IF avg_confidence = "array" THEN "figure" ELSE "raised"

\* The frame record:
\*   drv     the driver
\*   fpc     "detect", "faces", "next", "finish", "done"
\*   n       length of the detector's list
\*   todo    faces still to process
\*   face    what the driver did with the last face
\*   kept    len(all_confidence_scores)
\*   rects   rectangles drawn on the frame
\*   frame   what became of the frame: "none", "displayed", "written",
\*           "skipped" (the loop went on without writing it), "raised"
\*   chart   "none", "figure", "raised"
NoFace == [drv |-> "none"]

NewFrame(d) ==
    [drv |-> d, fpc |-> "detect", n |-> 0, todo |-> 0, face |-> NoFace,
     kept |-> 0, rects |-> 0, frame |-> "none", chart |-> "none"]

InitFrame ==
    /\ sess = [s \in Sessions |-> Offline]
    /\ files = [f \in {video_path, output_path} |-> NoFile]
    /\ \E d \in Drivers : fr = NewFrame(d)

\* One face of the list has been processed.
AfterFace(f) ==
    IF f.raised
    THEN [fr EXCEPT !.face = f, !.frame = "raised", !.fpc = "done"]
    ELSE [fr EXCEPT !.face = f, !.todo = @ - 1,
                    !.kept = IF f.drv = "image" THEN @ + 1 ELSE @,
                    !.rects = IF f.rect THEN @ + 1 ELSE @,
                    !.fpc = IF fr.todo = 1 THEN "finish" ELSE "next"]

\* Lines 144, 333, 440: `for face in faces` takes the next face of the list.
NextFace ==
    /\ fr.fpc = "next"
    /\ fr' = [fr EXCEPT !.face = NoFace, !.fpc = "faces"]
    /\ UNCHANGED <<sess, files>>

\* Lines 137-140: no face: a warning, and (image, []) is returned.
ImageDetect ==
    /\ fr.fpc = "detect" /\ fr.drv = "image"
    /\ \E n \in 0..MaxFaces :
          fr' = [fr EXCEPT !.n = n, !.todo = n,
                           !.fpc = IF n = 0 THEN "finish" ELSE "faces"]
    /\ UNCHANGED <<sess, files>>

ImageAnnotate ==
    /\ fr.fpc = "faces" /\ fr.drv = "image"
    /\ \E b \in Boxes, raw \in RawScores : fr' = AfterFace(ImageFace(b, raw))
    /\ UNCHANGED <<sess, files>>

\* Lines 206-214: the annotated image is shown, then the chart is plotted from
\* whatever detect_and_annotate_faces returned.
ImagePlot ==
    /\ fr.fpc = "finish" /\ fr.drv = "image"
    /\ fr' = [fr EXCEPT !.frame = "displayed",
                        !.chart = plot_confidence_chart(fr.kept),
                        !.fpc = "done"]
    /\ UNCHANGED <<sess, files>>

\* Lines 328-331: no face: a warning and `continue`; line 350 is not reached.
VideoDetect ==
    /\ fr.fpc = "detect" /\ fr.drv = "video"
    /\ \E n \in 0..MaxFaces :
          fr' = IF n = 0
                THEN [fr EXCEPT !.frame = "skipped", !.fpc = "done"]
                ELSE [fr EXCEPT !.n = n, !.todo = n, !.fpc = "faces"]
    /\ UNCHANGED <<sess, files>>

VideoAnnotate ==
    /\ fr.fpc = "faces" /\ fr.drv = "video"
    /\ \E b \in Boxes, raw \in RawScores : fr' = AfterFace(VideoFace(b, raw))
    /\ UNCHANGED <<sess, files>>

\* Line 350: out.write(frame).
VideoWrite ==
    /\ fr.fpc = "finish" /\ fr.drv = "video"
    /\ fr' = [fr EXCEPT !.frame = "written", !.fpc = "done"]
    /\ UNCHANGED <<sess, files>>

\* Line 438: the list may be empty; the loop of line 440 then does nothing.
LiveDetect ==
    /\ fr.fpc = "detect" /\ fr.drv = "live"
    /\ \E n \in 0..MaxFaces :
          fr' = [fr EXCEPT !.n = n, !.todo = n,
                           !.fpc = IF n = 0 THEN "finish" ELSE "faces"]
    /\ UNCHANGED <<sess, files>>

LiveAnnotate ==
    /\ fr.fpc = "faces" /\ fr.drv = "live"
    /\ \E b \in Boxes, raw \in RawScores : fr' = AfterFace(LiveFace(b, raw))
    /\ UNCHANGED <<sess, files>>

\* Lines 456-458: the frame is shown.
LiveDisplay ==
    /\ fr.fpc = "finish" /\ fr.drv = "live"
    /\ fr' = [fr EXCEPT !.frame = "displayed", !.fpc = "done"]
    /\ UNCHANGED <<sess, files>>

NextFrame ==
    \/ ImageDetect
    \/ ImageAnnotate
    \/ ImagePlot
    \/ VideoDetect
    \/ VideoAnnotate
    \/ VideoWrite
    \/ LiveDetect
    \/ LiveAnnotate
    \/ LiveDisplay
    \/ NextFace

SpecFrame == InitFrame /\ [][NextFrame]_vars

(***************************************************************************)
(* Claims about the sessions and the video run                             *)
(***************************************************************************)
\* C1 (as claimed): a script run that answers an upload event which arrived
\* while a video run of the session was in flight starts no video run of its
\* own (it does not pass the guard of line 293 and so does not write
\* video_path again), and on the Video Annotation page it shows the "ongoing"
\* notice of line 374.
ClaimC1_BusyUploadIsRefused ==
    \A s \in Sessions :
        sess[s].answering =>
            /\ sess[s].pc \notin RunPcs
            /\ (sess[s].pc = "tail" /\ sess[s].page = "Video Annotation")
                   => "ongoing_notice" \in sess[s].rendered

\* C2 (as claimed): once a video run has ended, by end of stream, by the file
\* not opening or by a failure inside the frame loop, neither video_path nor
\* output_path exists and neither handle is left open.
ClaimC2_CleanAfterEveryRun ==
    \A s \in Sessions :
        sess[s].ended \in {"completed", "open_failed", "failed"} =>
            /\ files[video_path] = NoFile
            /\ files[output_path] = NoFile
            /\ sess[s].cap # "open"
            /\ sess[s].out # "open"

\* C3 (as claimed): when the frame loop of a video run is over, as many frames
\* have been written as were read.
ClaimC3_EveryFrameWritten ==
    \A s \in Sessions :
        sess[s].pc \in {"release", "download", "cleanup"} =>
            sess[s].frame_count = sess[s].pos

\* C4 (as claimed): the live driver is driven by its start/stop control: once
\* the script has run for the Live Cam page, the page offers that control.
ClaimC4_LiveControlOffered ==
    \A s \in Sessions :
        (sess[s].page = "Live Cam" /\ sess[s].pc = "idle")
            => "start_stop_button" \in sess[s].rendered

\* C9 (as claimed): while a video run of a session is in flight, the temporary
\* input file and, once the writer exists, the temporary output file are the
\* ones that run wrote: no other session has written or removed them.
ClaimC9_RunOwnsItsFiles ==
    \A s \in Sessions :
        /\ sess[s].pc \in RunPcs => files[video_path] = s
        /\ sess[s].pc \in RunPcs \ {"open", "writer"} => files[output_path] = s

\* C11 (as claimed): whenever the processing flag of a session is true, it
\* returns to false later on, however the run that set it ended.
ClaimC11_FlagReturnsToFalse ==
    \A s \in Sessions :
        (sess[s].processing = "True") ~> (sess[s].processing = "False")

(***************************************************************************)
(* Claims about the per-frame pipeline                                     *)
(***************************************************************************)
\* A face the driver has classified: the preprocessor was called and returned.
Classified(f) == f.drv # "none" /\ f.prep /\ ~f.raised

LabelsOf(d) == IF d = "live" THEN live_labels ELSE emotion_labels

\* max(D) < t / 10 for the distribution D of the scores raw (their sum > 0).
BelowTheta(raw, t) == 10 * MaxOf(raw) < t * Sum(raw)

TheoremC6_NoChartWithoutFaces ==
    (fr.drv = "image" /\ fr.n = 0 /\ fr.fpc = "done") =>
        /\ fr.rects = 0
        /\ fr.chart \in {"none", "raised"}

\* C6 witness: the image page has called the visualizer with the empty list.
WitnessC6_EmptyListPlotted ==
    /\ fr.drv = "image" /\ fr.n = 0 /\ fr.kept = 0
    /\ fr.fpc = "done" /\ fr.frame = "displayed"
    /\ fr.chart = "raised"

\* C7 (as claimed): the box a driver crops and draws with lies in the frame.
ClaimC7_BoxWithinFrame ==
    LET f == fr.face
    IN  f.drv # "none" =>
            /\ 0 <= f.box.x
            /\ 0 <= f.box.y
            /\ f.box.x + f.box.width <= FrameW
            /\ f.box.y + f.box.height <= FrameH

\* C8 (as claimed): a call of a predict_emotion that scales and renormalizes
\* (line 114, line 421) whose scaled scores are all zero gives its driver no
\* distribution and no label: nothing was divided by the zero sum.
ClaimC8_ZeroScoresGiveNoLabel ==
    LET f == fr.face
    IN  (Classified(f) /\ f.drv \in {"image", "live"} /\ Sum(f.raw) = 0) =>
            /\ f.dist = NoDist
            /\ f.label = "none"

\* C10 (as claimed): the preprocessor is never called on an empty crop.
ClaimC10_NoEmptyCropPreprocessed ==
    LET f == fr.face
    IN  (f.drv # "none" /\ f.prep) => RoiSize(f.roi) > 0

====
